---- MODULE Spec2Model ----
(***************************************************************************)
(* Job orchestration of the VideoCapture view (upload -> process -> poll   *)
(* -> fetch results) together with the video slice of the zustand store.   *)
(*                                                                         *)
(* The repository holds two versions of the view: the IPC version, which   *)
(* talks to the backend through window.electronAPI, and the axios version, *)
(* which talks HTTP directly.  `version` selects one of them, and          *)
(* `electronAPI` says whether window.electronAPI exists (Electron shell)   *)
(* or not (plain browser).  Both are fixed for a run.                      *)
(*                                                                         *)
(* A React state change, the re-render it causes and the effect that runs  *)
(* after the render are one step: every action that changes videoId or     *)
(* isProcessing ends with Effect, the polling useEffect.                   *)
(*                                                                         *)
(* The backend is the environment.  It acts on a request at the moment its *)
(* response is delivered; requests are answered in any order and after any *)
(* delay.                                                                  *)
(***************************************************************************)
EXTENDS Integers, FiniteSets, Sequences, Bags, TLC

\* ---------------------------------------------------------------- bounds
MaxJobs == 2
MaxCalls == 2
MaxMounts == 2

\* the bounded retry count of the polling loop (spec 4.5, "default 3")
RetryLimit == 3

\* null for a string-valued field, for a job id and for the result document
NULL == "null"
NoId == 0
NoResults == [job |-> NoId, valid |-> FALSE]
\* the handle of an interval that has been cleared: clearInterval ignores it
DeadHandle == 0

MaxMoments == 2
JobIds == 1..MaxJobs
Handles == 1..(MaxCalls + 2)
Videos == {"a", "b"}

\* the messages the view stores in `error`
ErrSelectFirst == "Please select a video file first"
ErrElectronOnly == "Backend communication is only available in the Electron app."
ErrWebPreview ==
    "File selection in web mode is for preview only. Please use the Electron app to process videos."
ErrProcessingFailed == "Processing failed. Please try again."
ErrCommunicate == "Failed to communicate with backend."
ErrFetchResults == "Failed to fetch results."
ErrUpload == "Failed to upload video"
ErrStart == "Failed to start processing"
ErrProcess == "Failed to process video"
\* an error text that comes from the transport or from the backend's reply
ErrRaw == "raw transport or backend message"

VARIABLES
    version,            \* "ipc" | "axios": which VideoCapture is built
    electronAPI,        \* window.electronAPI is defined
    mounted,            \* the VideoCapture view is mounted
    mounts,             \* how often the view has been mounted
    \* store (survives unmount)
    videoPath, isProcessing, processingProgress,
    \* component state (lost on unmount)
    videoFile, videoId, processingResults, error,
    \* timers and asynchronous work
    intervals,          \* live setInterval handles of the polling effect
    calls,              \* bag of polling callbacks suspended at an await
    procs,              \* bag of handleProcess invocations suspended at an await
    \* backend
    jobs,               \* job id -> status at the backend
    \* history
    seen,               \* job id -> the terminal status a poll last observed
    netFails,           \* consecutive failed polls while isProcessing (capped)
    uploads,            \* upload requests issued for the selected video (capped)
    \* store: motion capture data and settings
    motionData,         \* the number of frames of the loaded data (0: the empty array)
    currentFrame,       \* the frame index the store holds
    playbackSpeed,      \* settings.playbackSpeed, in halves (2 is speed 1.0), or NaN
    \* playback engine (transport)
    playState,          \* "Idle" | "Ready" | "Playing" | "Paused"
    loop,               \* the loop flag
    mirrored,           \* the mirror attribute
    playbackError,      \* the observable error flag: NULL or a PlaybackError tag
    elapsed,            \* wall-clock time played since the last play(), in ticks' units
    \* documents
    document,           \* the document handed to validate / optimize
    verdict,            \* what validate returned for it
    optimized,          \* what optimize / retarget returned for it
    \* coordinate transformer
    landmark,           \* the landmark [x, y, z] of the frame data
    scene,              \* its coordinates after the transformations applied so far
    \* store: backend status, sessions, metrics
    backendStatus,      \* backendStatus.status
    currentSession,     \* the session, [id |-> Date.now()]; id 0 stands for null
    sessions,           \* the saved sessions
    flowMetrics,        \* the five flow metrics
    wasReset,           \* history: resetApp has been called
    \* Electron main process
    mainWindow,         \* "open" or NULL
    pythonProcess,      \* "running", "killed" (signalled, 'close' not yet emitted) or NULL
    killedByApp,        \* the app has sent the backend a kill signal
    isMac,              \* process.platform === 'darwin'
    appRunning,         \* the app has not quit
    waitPc,             \* waitForBackend: "check" | "sleep" | "done"
    attempts,           \* its counter
    lastCheck,          \* "none", or what the last checkBackend returned: "ok" | "failed"
    checks,             \* health checks performed
    readySent,          \* 'backend-ready' messages sent
    dialogs,            \* error dialogs shown by waitForBackend
    nullSend            \* mainWindow.webContents.send was evaluated with mainWindow null

vars == << version, electronAPI, mounted, mounts, videoPath, isProcessing,
           processingProgress, videoFile, videoId, processingResults, error,
           intervals, calls, procs, jobs, seen, netFails, uploads,
           motionData, currentFrame, playbackSpeed,
           playState, loop, mirrored, playbackError, elapsed,
           document, verdict, optimized, landmark, scene,
          backendStatus, currentSession, sessions, flowMetrics, wasReset, mainWindow,
          pythonProcess, killedByApp, isMac, appRunning, waitPc, attempts, lastCheck,
          checks, readySent, dialogs, nullSend >>

storeVars == << videoPath, isProcessing, processingProgress >>
localVars == << videoFile, videoId, processingResults, error >>
\* the store's motion data and settings, and the playback engine
motionVars == << motionData, currentFrame, playbackSpeed >>
engineVars == << playState, loop, mirrored, playbackError, elapsed >>
\* what no handler of the capture view touches: the build, the shell, and the
\* state of the playback side and of the document functions
sceneVars == << landmark, scene >>
sessionVars == << backendStatus, currentSession, sessions, flowMetrics, wasReset >>
mainVars == << mainWindow, pythonProcess, killedByApp, isMac, appRunning, waitPc, attempts,
               lastCheck, checks, readySent, dialogs, nullSend >>
docVars == << document, verdict, optimized, sceneVars, sessionVars, mainVars >>
envVars == << version, electronAPI, motionVars, engineVars, docVars >>
histVars == << seen, netFails, uploads >>

\* one more failed poll, or none to count once polling has stopped
Failed(proc) == IF proc THEN IF netFails < RetryLimit THEN netFails + 1 ELSE netFails ELSE 0

Min(S) == CHOOSE x \in S : \A y \in S : x <= y

\* ------------------------------------------------------------------ Init
\* the store's initial motion data and settings; the engine has no data
MotionInit ==
    /\ motionData = 0
    /\ currentFrame = 0
    /\ playbackSpeed = 2
    /\ playState = "Idle"
    /\ loop = FALSE
    /\ mirrored = FALSE
    /\ playbackError = NULL
    /\ elapsed = 0

\* the capture view is not mounted and nothing has been chosen or uploaded
ViewInit ==
    /\ version \in {"ipc", "axios"}
    /\ electronAPI \in BOOLEAN
    /\ mounted = FALSE
    /\ mounts = 0
    /\ videoPath = NULL
    /\ isProcessing = FALSE
    /\ processingProgress = 0
    /\ videoFile = NULL
    /\ videoId = NoId
    /\ processingResults = NoResults
    /\ error = NULL
    /\ intervals = {}
    /\ calls = EmptyBag
    /\ procs = EmptyBag
    /\ jobs = [j \in JobIds |-> "none"]
    /\ seen = [j \in JobIds |-> "none"]
    /\ netFails = 0
    /\ uploads = 0

\* no document has been handed to validate or optimize
NoDocument == [fps |-> 0, totalFrames |-> 0, maxIndex |-> 0, culled |-> 0, frames |-> << >>]
NoVerdict == [ok |-> FALSE, tag |-> "none", path |-> "none"]

NoMetrics == [coherence |-> 0, smoothness |-> 0, balance |-> 0, energy |-> 0, focus |-> 0]

\* the store's initial backend status, sessions and metrics
SessionInit ==
    /\ backendStatus = "idle"
    /\ currentSession = [id |-> 0]
    /\ sessions = << >>
    /\ flowMetrics = NoMetrics
    /\ wasReset = FALSE

\* the main process once app.whenReady has created the window, spawned the
\* backend and called waitForBackend
MainInit(mac) ==
    /\ mainWindow = "open"
    /\ pythonProcess = "running"
    /\ killedByApp = FALSE
    /\ isMac = mac
    /\ appRunning = TRUE
    /\ waitPc = "check"
    /\ attempts = 0
    /\ lastCheck = "none"
    /\ checks = 0
    /\ readySent = 0
    /\ dialogs = 0
    /\ nullSend = FALSE

AppInit == SessionInit /\ MainInit(FALSE)

SceneInit ==
    /\ landmark = << 0, 0, 0 >>
    /\ scene = [p |-> << 0, 0, 0 >>, applied |-> << >>]

DocInit ==
    /\ document = NoDocument
    /\ verdict = NoVerdict
    /\ optimized = NoDocument
    /\ SceneInit

Init == MotionInit /\ ViewInit /\ DocInit /\ AppInit

\* --------------------------------------------------------------- helpers
One(x) == SetToBag({x})

\* the number of copies in `bag` of the elements in S
CountIn(bag, S) ==
    LET n[T \in SUBSET S] ==
            IF T = {} THEN 0
            ELSE LET x == CHOOSE x \in T : TRUE
                 IN bag[x] + n[T \ {x}]
    IN n[S]

\* A suspended callback or handler is a record whose `own` field says that
\* the component instance that created it is still mounted: setState of an
\* unmounted instance does nothing.  Unmount disowns all of them.
Disown(bag) ==
    LET f(x) == [x EXCEPT !.own = FALSE] IN
    [y \in {f(x) : x \in BagToSet(bag)} |-> CountIn(bag, {x \in BagToSet(bag) : f(x) = y})]

FreshHandle == Min(Handles \ {i.lid : i \in intervals})

\* the condition under which the polling effect starts an interval
PollCond(vid, proc) ==
    /\ vid # NoId
    /\ proc
    /\ (version = "ipc" => electronAPI)

\* The polling useEffect after a render: when a dependency changed, the
\* cleanup of the previous run clears its interval and the new run starts
\* one if PollCond holds.  `ivs` are the handles left by the handler itself.
Effect(ivs, newVid, newProc) ==
    IF newVid = videoId /\ newProc = isProcessing
    THEN ivs
    ELSE IF PollCond(newVid, newProc)
         THEN {[lid |-> FreshHandle, vid |-> newVid]}
         ELSE {}

\* clearInterval(interval)
ClearInterval(lid) == {i \in intervals : i.lid # lid}

\* Callbacks keep the handle of their interval in a closure.  Once the
\* interval is cleared the handle is dead for good, whatever its number.
Handle(c, ivs) == IF \E i \in ivs : i.lid = c.lid THEN c.lid ELSE DeadHandle

DropDead(bag, ivs) ==
    LET f(x) == [x EXCEPT !.lid = Handle(x, ivs)] IN
    [y \in {f(x) : x \in BagToSet(bag)} |-> CountIn(bag, {x \in BagToSet(bag) : f(x) = y})]

\* ---------------------------------------------------- mounting the view
\* The route /capture is entered: a new component instance, initial state,
\* and the effect's first run (videoId is null, so no interval).
Mount ==
    /\ ~mounted
    /\ mounts < MaxMounts
    /\ mounted' = TRUE
    /\ mounts' = mounts + 1
    /\ videoFile' = NULL
    /\ videoId' = NoId
    /\ processingResults' = NoResults
    /\ error' = NULL
    /\ intervals' = {}
    /\ UNCHANGED << storeVars, envVars, calls, procs, jobs, histVars >>

\* The route is left: the effect's cleanup clears the interval and the
\* component state is dropped.  Suspended callbacks stay suspended.
Unmount ==
    /\ mounted
    /\ mounted' = FALSE
    /\ videoFile' = NULL
    /\ videoId' = NoId
    /\ processingResults' = NoResults
    /\ error' = NULL
    /\ intervals' = {}
    /\ calls' = DropDead(Disown(calls), {})
    /\ procs' = Disown(procs)
    /\ UNCHANGED << mounts, storeVars, envVars, jobs, histVars >>

\* ------------------------------------------------------ choosing a video
\* The drop zone is rendered while videoPath is null, the refresh button
\* otherwise, and the refresh button is disabled while isProcessing.
CanSelect == mounted /\ (videoPath = NULL \/ ~isProcessing)

\* handleFileSelect with window.electronAPI: the native dialog returns a
\* path (or null when cancelled).
SelectVideo(path) ==
    /\ CanSelect
    /\ electronAPI
    /\ IF path = NULL
       THEN UNCHANGED << videoPath, videoId, processingResults, error, intervals, calls,
                         uploads >>
       ELSE /\ videoPath' = path
            /\ uploads' = 0
            /\ IF version = "ipc"
               THEN /\ videoId' = NoId
                    /\ processingResults' = NoResults
                    /\ error' = NULL
               ELSE UNCHANGED << videoId, processingResults, error >>
            /\ intervals' = Effect(intervals, videoId', isProcessing)
            /\ calls' = DropDead(calls, intervals')
    /\ UNCHANGED << mounted, mounts, isProcessing, processingProgress, videoFile,
                    envVars, procs, jobs, seen, netFails >>

\* handleFileSelect without window.electronAPI clicks the hidden file input,
\* which is rendered inside the drop zone only (videoPath is null);
\* handleFileChange receives the chosen file.
FileChange(file) ==
    /\ mounted
    /\ videoPath = NULL
    /\ ~electronAPI
    /\ videoPath' = file
    /\ processingResults' = NoResults
    /\ IF version = "ipc"
       THEN /\ error' = ErrWebPreview
            /\ UNCHANGED videoFile
       ELSE /\ error' = NULL
            /\ videoFile' = file
    /\ uploads' = 0
    /\ UNCHANGED << mounted, mounts, isProcessing, processingProgress, videoId,
                    intervals, envVars, calls, procs, jobs, seen, netFails >>

\* ----------------------------------------------------------- handleProcess
\* The Process button is rendered once a video is chosen and is disabled
\* while isProcessing.
CanProcess == mounted /\ videoPath # NULL /\ ~isProcessing

JobsUsed == Cardinality({j \in JobIds : jobs[j] # "none"})
UploadsPending == CountIn(procs, {p \in BagToSet(procs) : p.pc = "upload"})

NewProc(pc, vid) == [own |-> TRUE, pc |-> pc, vid |-> vid]

\* handleProcess up to its first await
HandleProcess ==
    /\ CanProcess
    /\ BagCardinality(procs) < MaxJobs
    /\ IF version = "ipc" /\ ~electronAPI
       THEN /\ error' = ErrElectronOnly
            /\ UNCHANGED << isProcessing, processingProgress, procs, intervals, calls,
                            netFails, uploads >>
       ELSE /\ isProcessing' = TRUE
            /\ processingProgress' = 0
            /\ error' = NULL
            /\ netFails' = 0
            /\ intervals' = Effect(intervals, videoId, TRUE)
            /\ calls' = DropDead(calls, intervals')
            /\ IF version = "ipc" \/ (videoFile # NULL /\ videoId = NoId)
               THEN /\ JobsUsed + UploadsPending < MaxJobs
                    /\ procs' = procs (+) One(NewProc("upload", NoId))
                    /\ uploads' = IF uploads < MaxJobs THEN uploads + 1 ELSE uploads
               ELSE /\ UNCHANGED uploads
                    /\ IF videoId # NoId
                       THEN procs' = procs (+) One(NewProc("process", videoId))
                       ELSE UNCHANGED procs
    /\ UNCHANGED << mounted, mounts, videoPath, videoFile, videoId, processingResults,
                    envVars, jobs, seen >>

\* the catch block of handleProcess
ProcessCatch(p, msg) ==
    /\ error' = IF p.own THEN msg ELSE error
    /\ isProcessing' = FALSE
    /\ netFails' = 0
    /\ procs' = procs (-) One(p)
    /\ intervals' = Effect(intervals, videoId, FALSE)
    /\ calls' = DropDead(calls, intervals')

\* the upload returned a video_id: setVideoId, then processVideo is requested
UploadOk(p) ==
    /\ p.pc = "upload"
    /\ LET j == Min({k \in JobIds : jobs[k] = "none"}) IN
       /\ jobs' = [jobs EXCEPT ![j] = "uploaded"]
       /\ videoId' = IF p.own THEN j ELSE videoId
       /\ procs' = (procs (-) One(p)) (+) One([p EXCEPT !.pc = "process", !.vid = j])
       /\ intervals' = Effect(intervals, videoId', isProcessing)
       /\ calls' = DropDead(calls, intervals')
    /\ UNCHANGED << mounted, mounts, storeVars, videoFile, processingResults, error,
                    envVars, histVars >>

\* the upload failed: success false (ipc) or a rejected request (axios)
UploadFail(p, msg) ==
    /\ p.pc = "upload"
    /\ msg \in (IF version = "ipc" THEN {ErrRaw, ErrUpload} ELSE {ErrRaw, ErrProcess})
    /\ ProcessCatch(p, msg)
    /\ UNCHANGED << mounted, mounts, videoPath, processingProgress, videoFile, videoId,
                    processingResults, envVars, jobs, seen, uploads >>

\* processVideo returned success: the backend is processing the job
ProcessOk(p) ==
    /\ p.pc = "process"
    /\ jobs' = [jobs EXCEPT ![p.vid] = "processing"]
    /\ procs' = procs (-) One(p)
    /\ UNCHANGED << mounted, mounts, storeVars, localVars, intervals, envVars, calls,
                    histVars >>

\* processVideo failed
ProcessFail(p, msg) ==
    /\ p.pc = "process"
    /\ msg \in (IF version = "ipc" THEN {ErrRaw, ErrStart} ELSE {ErrRaw, ErrProcess})
    /\ ProcessCatch(p, msg)
    /\ UNCHANGED << mounted, mounts, videoPath, processingProgress, videoFile, videoId,
                    processingResults, envVars, jobs, seen, uploads >>

\* ----------------------------------------------------------------- backend
\* the external processor finishes a job
BackendFinish(j, outcome) ==
    /\ jobs[j] = "processing"
    /\ outcome \in {"completed", "error"}
    /\ jobs' = [jobs EXCEPT ![j] = outcome]
    /\ UNCHANGED << mounted, mounts, storeVars, localVars, intervals, envVars, calls,
                    procs, histVars >>

\* -------------------------------------------------------- polling callback
\* The interval fires (every 1000 ms while it is live) and the callback runs
\* up to `await getVideoStatus(videoId)`.  setInterval does not wait for the
\* previous callback.
TimerFire(i) ==
    /\ i \in intervals
    /\ BagCardinality(calls) < MaxCalls
    /\ IF version = "ipc" /\ ~electronAPI
       THEN /\ intervals' = ClearInterval(i.lid)
            /\ calls' = DropDead(calls, intervals')
       ELSE /\ calls' = calls (+) One([lid |-> i.lid, vid |-> i.vid, own |-> TRUE,
                                       pc |-> "status"])
            /\ UNCHANGED intervals
    /\ UNCHANGED << mounted, mounts, storeVars, localVars, envVars, procs, jobs, histVars >>

\* the progress the backend reports with a status
ProgressOf(status) ==
    CASE status = "uploaded" -> 0
      [] status = "completed" -> 100
      [] OTHER -> 50

\* the status request returned a snapshot {status, progress}
PollOk(c) ==
    /\ c.pc = "status"
    /\ processingProgress' = ProgressOf(jobs[c.vid])
    /\ netFails' = 0
    /\ LET status == jobs[c.vid] IN
       IF status = "completed"
       THEN \* clearInterval, setIsProcessing(false), then getVideoResults
            /\ isProcessing' = FALSE
            /\ intervals' = Effect(ClearInterval(c.lid), videoId, FALSE)
            /\ calls' = DropDead((calls (-) One(c)) (+) One([c EXCEPT !.pc = "results"]),
                                 intervals')
            /\ seen' = [seen EXCEPT ![c.vid] = "completed"]
            /\ UNCHANGED error
       ELSE IF status = "error"
       THEN /\ isProcessing' = FALSE
            /\ intervals' = Effect(ClearInterval(c.lid), videoId, FALSE)
            /\ error' = IF c.own THEN ErrProcessingFailed ELSE error
            /\ calls' = DropDead(calls (-) One(c), intervals')
            /\ seen' = [seen EXCEPT ![c.vid] = "error"]
       ELSE /\ calls' = calls (-) One(c)
            /\ UNCHANGED << isProcessing, intervals, error, seen >>
    /\ UNCHANGED << mounted, mounts, videoPath, videoFile, videoId, processingResults,
                    envVars, procs, jobs, uploads >>

\* ipc: the main process caught a transport error and answered
\* {success: false}; the callback does nothing
PollNetworkFail(c) ==
    /\ version = "ipc"
    /\ c.pc = "status"
    /\ calls' = calls (-) One(c)
    /\ netFails' = Failed(isProcessing)
    /\ UNCHANGED << mounted, mounts, storeVars, localVars, intervals, envVars, procs,
                    jobs, seen, uploads >>

\* the catch block of the polling callback
PollCatch(c) ==
    IF version = "ipc"
    THEN /\ error' = IF c.own THEN ErrCommunicate ELSE error
         /\ isProcessing' = FALSE
         /\ netFails' = 0
         /\ intervals' = Effect(ClearInterval(c.lid), videoId, FALSE)
         /\ calls' = DropDead(calls (-) One(c), intervals')
    ELSE /\ calls' = calls (-) One(c)
         /\ netFails' = (IF c.pc = "status" THEN Failed(isProcessing) ELSE netFails)
         /\ UNCHANGED << error, isProcessing, intervals >>

\* the status request was rejected (axios: any transport or HTTP error)
PollThrow(c) ==
    /\ c.pc = "status"
    /\ PollCatch(c)
    /\ UNCHANGED << mounted, mounts, videoPath, processingProgress, videoFile, videoId,
                    processingResults, envVars, procs, jobs, seen, uploads >>

\* the result document of job `vid` as the backend returns it; `valid` says
\* whether it satisfies the animation schema
ResultDoc(vid, valid) == [job |-> vid, valid |-> valid]

\* the results request returned a document: setProcessingResults
ResultsOk(c, valid) ==
    /\ c.pc = "results"
    /\ calls' = calls (-) One(c)
    /\ processingResults' = IF c.own THEN ResultDoc(c.vid, valid) ELSE processingResults
    /\ UNCHANGED << mounted, mounts, storeVars, videoFile, videoId, error, intervals,
                    envVars, procs, jobs, histVars >>

\* ipc: the results request was answered {success: false, error}
ResultsFail(c, msg) ==
    /\ version = "ipc"
    /\ c.pc = "results"
    /\ msg \in {ErrRaw, ErrFetchResults}
    /\ calls' = calls (-) One(c)
    /\ error' = IF c.own THEN msg ELSE error
    /\ UNCHANGED << mounted, mounts, storeVars, videoFile, videoId, processingResults,
                    intervals, envVars, procs, jobs, histVars >>

\* the results request was rejected: the await sits in the same try block
ResultsThrow(c) ==
    /\ c.pc = "results"
    /\ PollCatch(c)
    /\ UNCHANGED << mounted, mounts, videoPath, processingProgress, videoFile, videoId,
                    processingResults, envVars, procs, jobs, seen, uploads >>

\* ------------------------------------------------------------------ store
\* createSession: a session with the id Date.now()
createSession(now) == currentSession' = [id |-> now]

\* resetApp that leaves the current frame as it is
ResetApp_KeepsFrame(now) ==
    /\ videoPath' = NULL
    /\ isProcessing' = FALSE
    /\ processingProgress' = 0
    /\ intervals' = IF mounted THEN Effect(intervals, videoId, FALSE) ELSE intervals
    /\ calls' = DropDead(calls, intervals')
    /\ netFails' = 0
    /\ uploads' = 0
    /\ motionData' = 0
    /\ flowMetrics' = NoMetrics
    /\ createSession(now)
    /\ wasReset' = TRUE
    /\ UNCHANGED << mounted, mounts, localVars, version, electronAPI, playbackSpeed,
                    currentFrame,
                    engineVars, document, verdict, optimized, sceneVars, mainVars,
                    backendStatus, sessions, procs, jobs, seen >>

\* resetApp of the store.  No component calls it;
\* it is an operation of the store's interface.
ResetApp(now) ==
    /\ videoPath' = NULL
    /\ isProcessing' = FALSE
    /\ processingProgress' = 0
    /\ intervals' = IF mounted THEN Effect(intervals, videoId, FALSE) ELSE intervals
    /\ calls' = DropDead(calls, intervals')
    /\ netFails' = 0
    /\ uploads' = 0
    /\ motionData' = 0
    /\ currentFrame' = 0
    /\ flowMetrics' = NoMetrics
    /\ createSession(now)
    /\ wasReset' = TRUE
    /\ UNCHANGED << mounted, mounts, localVars, version, electronAPI, playbackSpeed,
                    engineVars, document, verdict, optimized, sceneVars, mainVars,
                    backendStatus, sessions, procs, jobs, seen >>

Next ==
    \/ Mount
    \/ Unmount
    \/ \E path \in Videos \cup {NULL} : SelectVideo(path)
    \/ \E file \in Videos : FileChange(file)
    \/ HandleProcess
    \/ \E p \in BagToSet(procs) : UploadOk(p)
    \/ \E p \in BagToSet(procs), msg \in {ErrRaw, ErrUpload, ErrProcess} : UploadFail(p, msg)
    \/ \E p \in BagToSet(procs) : ProcessOk(p)
    \/ \E p \in BagToSet(procs), msg \in {ErrRaw, ErrStart, ErrProcess} : ProcessFail(p, msg)
    \/ \E j \in JobIds, o \in {"completed", "error"} : BackendFinish(j, o)
    \/ \E i \in intervals : TimerFire(i)
    \/ \E c \in BagToSet(calls) : PollOk(c)
    \/ \E c \in BagToSet(calls) : PollNetworkFail(c)
    \/ \E c \in BagToSet(calls) : PollThrow(c)
    \/ \E c \in BagToSet(calls), valid \in BOOLEAN : ResultsOk(c, valid)
    \/ \E c \in BagToSet(calls), msg \in {ErrRaw, ErrFetchResults} : ResultsFail(c, msg)
    \/ \E c \in BagToSet(calls) : ResultsThrow(c)

\* what the application does: the views and the backend
Spec == Init /\ [][Next]_vars

\* the same with the store's resetApp called at any time
NextReset == Next \/ \E now \in 1..MaxMoments : ResetApp(now)
SpecReset == Init /\ [][NextReset]_vars

\* The application with a backend that answers every request successfully
\* and finishes every job, and a timer that keeps firing.  What the user
\* does is left open.
TimerTick == \E i \in intervals : TimerFire(i)
UploadAnswered == \E p \in BagToSet(procs) : UploadOk(p)
ProcessAnswered == \E p \in BagToSet(procs) : ProcessOk(p)
StatusAnswered == \E c \in BagToSet(calls) : PollOk(c)
ResultsAnswered == \E c \in BagToSet(calls), valid \in BOOLEAN : ResultsOk(c, valid)
JobFinished == \E j \in JobIds, o \in {"completed", "error"} : BackendFinish(j, o)

NextLive ==
    \/ Mount
    \/ Unmount
    \/ \E path \in Videos \cup {NULL} : SelectVideo(path)
    \/ \E file \in Videos : FileChange(file)
    \/ HandleProcess
    \/ TimerTick
    \/ UploadAnswered
    \/ ProcessAnswered
    \/ StatusAnswered
    \/ ResultsAnswered
    \/ JobFinished

LiveSpec ==
    /\ Init
    /\ [][NextLive]_vars
    /\ WF_vars(TimerTick)
    /\ WF_vars(UploadAnswered)
    /\ WF_vars(ProcessAnswered)
    /\ WF_vars(StatusAnswered)
    /\ WF_vars(ResultsAnswered)
    /\ WF_vars(JobFinished)

\* ------------------------------------------------------------ observations
\* requests of kind pc ("status" | "results") outstanding for job j
Outstanding(bag, pc, j) == CountIn(bag, {c \in BagToSet(bag) : c.pc = pc /\ c.vid = j})

\* this step issues a status (results) request for job j
StatusRequested(j) == Outstanding(calls', "status", j) > Outstanding(calls, "status", j)
ResultsRequested(j) == Outstanding(calls', "results", j) > Outstanding(calls, "results", j)

\* ------------------------------------------------------------------ claims
\* C1: the results request of a job is issued exactly once, after a poll
\* observed 'completed', and never a second time for the same job: no step
\* issues a results request for a job whose completion has been observed
\* (and answered with a results request) before.
C1_ResultsOnce ==
    [][\A j \in JobIds : ResultsRequested(j) =>
          /\ jobs[j] = "completed"
          /\ seen[j] # "completed"]_vars

\* C2: Completed and Error are terminal: once a poll has observed one of
\* them for a job, no step issues a status request for that job.
C2_TerminalNoPoll ==
    [][\A j \in JobIds : seen[j] # "none" => ~StatusRequested(j)]_vars

\* C3: at most one status request is outstanding at any time.
C3_OnePollOutstanding ==
    CountIn(calls, {c \in BagToSet(calls) : c.pc = "status"}) <= 1
\* a poll of the running job failed at the network level in this step
FailedPoll(c) == isProcessing /\ c.pc = "status" /\ (PollNetworkFail(c) \/ PollThrow(c))

\* C4: a failed poll leaves the job alone and the loop polling, until the
\* RetryLimit-th consecutive failure, which abandons the job.
C4_RetryThenAbandon ==
    [][\A c \in BagToSet(calls) : FailedPoll(c) =>
          IF netFails + 1 < RetryLimit
          THEN isProcessing' /\ intervals' = intervals /\ error' = error
          ELSE ~isProcessing' /\ intervals' = {}]_vars

\* A job is in flight while the backend processes it, or while it is
\* uploaded and its processVideo request is outstanding.
Starting(j) == \E p \in BagToSet(procs) : p.pc = "process" /\ p.vid = j
InFlight(j) == jobs[j] = "processing" \/ (jobs[j] = "uploaded" /\ Starting(j))

\* The view polls job j: a live interval or an outstanding status request.
Polled(j) ==
    \/ \E i \in intervals : i.vid = j
    \/ \E c \in BagToSet(calls) : c.pc = "status" /\ c.vid = j

C6_EveryJobEnds ==
    (<>[]mounted) => [](isProcessing => <>(~isProcessing))
\* this step resumes the suspended callback c (its await returned)
Resumed(c) == CopiesIn(c, calls') < CopiesIn(c, calls)

\* C7: after the polling loop is cancelled no callback of it fires: a
\* callback that was suspended when the view was unmounted (the effect's
\* cleanup) changes none of processingProgress, processingResults, error
\* and isProcessing when it resumes.
C7_CancelStopsCallbacks ==
    [][\A c \in BagToSet(calls) : (~c.own /\ Resumed(c)) =>
          UNCHANGED << processingProgress, processingResults, error, isProcessing >>]_vars

\* C8: a result document is stored as processingResults only if it passed
\* the schema validation.
C8_OnlyValidatedResults ==
    processingResults # NoResults => processingResults.valid

\* C9: the steps of a job run in sequence: a status request for a job is
\* issued only after processVideo for it has returned success, that is
\* when the backend is past "uploaded".
C9_PollAfterStart ==
    [][\A j \in JobIds : StatusRequested(j) =>
          jobs[j] \in {"processing", "completed", "error"}]_vars

\* this step is a poll of job j that observes the status 'error', made by
\* a callback of the mounted view
ObservesError(j) ==
    \E c \in BagToSet(calls) : c.vid = j /\ c.own /\ jobs[j] = "error" /\ PollOk(c)

\* C10: a poll that observes 'error' stops the polling, sets isProcessing
\* to false and sets the error in the same step, and afterwards neither a
\* results request nor a status request is issued for that job.
C10_ErrorIsTerminal ==
    [][\A j \in JobIds :
          /\ ObservesError(j) =>
                ~isProcessing' /\ intervals' = {} /\ error' = ErrProcessingFailed
          /\ seen[j] = "error" => ~StatusRequested(j) /\ ~ResultsRequested(j)]_vars

\* C11: the selected video is uploaded at most once: over any sequence of
\* handleProcess invocations after one selection, at most one upload request
\* is issued.
C11_UploadOnce == uploads <= 1

\* ================================================================ playback
\* The store holds the motion data, the current frame and the playback
\* speed; its setters are the load, seek and setSpeed of the playback engine.
\* The transport (play, pause, stop, the tick loop) lives in the viewer
\* component, which is described by the design only.
\*
\* Units: a tick's delta d is dt * fps in eighths of a frame, the speed is in
\* halves, so d * playbackSpeed is the advance in sixteenths of a frame.
MaxFrames == 3
MaxDelta == 8

\* a playbackSpeed that is not a number
NaN == -1000
Speeds == {NaN, -2, 0, 1, 2, 4}
Frames == (-1)..(MaxFrames + 1)
Deltas == 1..MaxDelta

videoVars == << mounted, mounts, videoPath, isProcessing, processingProgress, videoFile,
                videoId, processingResults, error, intervals, calls, procs, jobs, seen,
                netFails, uploads, version, electronAPI, docVars >>

\* --- the store's setters
setMotionData(data) == motionData' = data
setCurrentFrame(frame) == currentFrame' = frame
updateSettings(speed) == playbackSpeed' = speed

\* initializeApp: the settings saved in localStorage replace the settings
InitializeApp(saved, now) ==
    /\ playState = "Idle"
    /\ updateSettings(saved)
    /\ createSession(now)
    /\ UNCHANGED << motionData, currentFrame, engineVars, mounted, mounts, videoPath,
                    isProcessing, processingProgress, videoFile, videoId,
                    processingResults, error, intervals, calls, procs, jobs, seen,
                    netFails, uploads, version, electronAPI, document, verdict, optimized,
                    sceneVars, mainVars, backendStatus, sessions, flowMetrics, wasReset >>

\* --- the engine's operations
\* load(data): the data is stored and the engine is Ready (Idle with no frames)
Load(data) ==
    /\ setMotionData(data)
    /\ playState' = IF data = 0 THEN "Idle" ELSE "Ready"
    /\ UNCHANGED << currentFrame, playbackSpeed, loop, mirrored, playbackError, elapsed,
                    videoVars >>

\* load of a document whose validation failed upstream: LoadError, nothing stored
LoadFailed ==
    /\ playbackError' = "LoadError"
    /\ playState' = IF playState = "Idle" THEN "Idle" ELSE "Ready"
    /\ UNCHANGED << motionVars, loop, mirrored, elapsed, videoVars >>

\* play() that does not look at the state it is called in
Play_FromAnyState ==
    /\ playState' = "Playing"
    /\ UNCHANGED << motionVars, loop, mirrored, playbackError, elapsed, videoVars >>

Play ==
    /\ playState \in {"Ready", "Paused"}
    /\ playState' = "Playing"
    /\ UNCHANGED << motionVars, loop, mirrored, playbackError, elapsed, videoVars >>

Pause ==
    /\ playState = "Playing"
    /\ playState' = "Paused"
    /\ UNCHANGED << motionVars, loop, mirrored, playbackError, elapsed, videoVars >>

Stop ==
    /\ playState \in {"Playing", "Paused"}
    /\ playState' = "Ready"
    /\ setCurrentFrame(0)
    /\ UNCHANGED << motionData, playbackSpeed, loop, mirrored, playbackError, elapsed,
                    videoVars >>

\* seek(frame): the timeline hands the frame to the store's setCurrentFrame
Seek(frame) ==
    /\ playState # "Idle"
    /\ setCurrentFrame(frame)
    /\ UNCHANGED << motionData, playbackSpeed, engineVars, videoVars >>

\* setSpeed(speed): the speed goes to the store's updateSettings
SetSpeed(speed) ==
    /\ updateSettings(speed)
    /\ UNCHANGED << motionData, currentFrame, engineVars, videoVars >>

SetLoop(flag) ==
    /\ loop' = flag
    /\ UNCHANGED << motionVars, playState, mirrored, playbackError, elapsed, videoVars >>

SetMirrored(flag) ==
    /\ playState # "Idle"
    /\ mirrored' = flag
    /\ UNCHANGED << motionVars, playState, loop, playbackError, elapsed, videoVars >>

Clamp(frame, totalFrames) ==
    IF frame < 0 THEN 0
    ELSE IF frame > totalFrames - 1 THEN totalFrames - 1
    ELSE frame

\* sixteenths of a frame rounded to the nearest frame (halves go up)
RoundFrames(a) == (a + 8) \div 16

\* the frame a tick of delta d computes
NextFrame(d) == Clamp(currentFrame + RoundFrames(d * playbackSpeed), motionData)

\* a tick that keeps playing whatever frame it reaches
Advance_NoStop(d) ==
    /\ playState = "Playing"
    /\ playbackSpeed # NaN
    /\ setCurrentFrame(NextFrame(d))
    /\ UNCHANGED << motionData, playbackSpeed, playState, loop, mirrored, playbackError,
                    videoVars >>

\* one scheduling tick while Playing (the design gives no frame computation
\* for a speed that is not a number)
Advance(d) ==
    /\ playState = "Playing"
    /\ playbackSpeed # NaN
    /\ IF NextFrame(d) = motionData - 1
       THEN IF loop
            THEN setCurrentFrame(0) /\ UNCHANGED playState
            ELSE setCurrentFrame(NextFrame(d)) /\ playState' = "Ready"
       ELSE setCurrentFrame(NextFrame(d)) /\ UNCHANGED playState
    /\ UNCHANGED << motionData, playbackSpeed, loop, mirrored, playbackError, videoVars >>

Tick(d) == Advance(d) /\ UNCHANGED elapsed

PlaybackNext ==
    \/ \E saved \in Speeds \ {NaN}, now \in 1..MaxMoments : InitializeApp(saved, now)
    \/ \E data \in 0..MaxFrames : Load(data)
    \/ LoadFailed
    \/ Play
    \/ Pause
    \/ Stop
    \/ \E frame \in Frames : Seek(frame)
    \/ \E speed \in Speeds : SetSpeed(speed)
    \/ \E flag \in BOOLEAN : SetLoop(flag)
    \/ \E flag \in BOOLEAN : SetMirrored(flag)
    \/ \E d \in Deltas : Tick(d)

PlaybackSpec == Init /\ [][PlaybackNext]_vars

\* C12: whenever animation data is loaded, currentFrame is an integer in
\* [0, totalFrames-1].
C12_FrameInRange == motionData > 0 => currentFrame \in 0..(motionData - 1)

\* C13: seek(frame) in Ready, Playing or Paused sets currentFrame to frame
\* clamped to [0, totalFrames-1] in the same step and leaves the transport
\* state as it was.
C13_SeekClamps ==
    [][\A frame \in Frames : Seek(frame) =>
          /\ currentFrame' = Clamp(frame, motionData)
          /\ playState' = playState]_vars

ExampleFrames == 10
ExampleSpeed == 4
HalfSecond == 120
\* deltas of 1/240 s, 1/120 s, 1/60 s, 1/30 s and 1/15 s
ExampleDeltas == {1, 2, 4, 8, 16}

\* play() has just been called on the example's data
ExampleInit ==
    /\ ViewInit
    /\ AppInit
    /\ motionData = ExampleFrames
    /\ currentFrame = 0
    /\ playbackSpeed = ExampleSpeed
    /\ playState = "Playing"
    /\ loop = FALSE
    /\ mirrored = FALSE
    /\ playbackError = NULL
    /\ elapsed = 0
    /\ DocInit

\* a tick of the display-refresh callback: the frame advances while Playing,
\* and the tick is skipped otherwise; the wall clock advances in both cases
TimedTick(d) ==
    /\ elapsed + d <= HalfSecond
    /\ elapsed' = elapsed + d
    /\ \/ Advance(d)
       \/ /\ playState # "Playing"
          /\ UNCHANGED << motionVars, playState, loop, mirrored, playbackError, videoVars >>

ExampleNext == \E d \in ExampleDeltas : TimedTick(d)

ExampleSpec == ExampleInit /\ [][ExampleNext]_vars

\* C15: in the example, after ticks whose deltas sum to 0.5 s, however the
\* 0.5 s are divided into ticks, currentFrame is min(9, round(0.5*30*2)) = 9
\* and the engine is in Ready.
C15_NoDrift ==
    elapsed = HalfSecond => (currentFrame = ExampleFrames - 1 /\ playState = "Ready")

InvalidSpeed(speed) == speed = NaN \/ speed <= 0

\* C17: after any sequence of speed updates the stored playbackSpeed is a
\* number > 0 (an invalid speed is rejected and the prior speed retained).
C17_SpeedPositive == ~InvalidSpeed(playbackSpeed)

\* this step is an operation that must fail: a load whose validation failed,
\* or a setSpeed with an invalid value on loaded data
FailingOperation ==
    \/ LoadFailed
    \/ \E speed \in Speeds : InvalidSpeed(speed) /\ playState # "Idle" /\ SetSpeed(speed)

\* C18: no playback failure is fatal: after a failing operation the error
\* flag is set and the engine is in Ready (in Idle when no data is loaded,
\* where the design sends a failed load), ready for further operations.
C18_FailuresReturnToReady ==
    [][FailingOperation =>
          /\ playbackError' # NULL
          /\ playState' = IF motionData = 0 THEN "Idle" ELSE "Ready"]_vars

\* =============================================================== documents
\* An animation document, as far as the checks of the validator read it:
\* metadata.fps and metadata.totalFrames, the largest index of the pose
\* connections, and per frame its index, its time, the number of entries of
\* its pose array (0: no pose that frame) and whether the visibilities of
\* the pose lie in [0,1].  `x` is one coordinate, in units of 1e-5.
MaxDocFrames == 2

PoseLandmarks == 33
DocFps == 30
\* frame times are in half frame periods: 1 / (2 * fps) seconds
Times == {0, 1}

DocFrames ==
    [frame : 0..MaxDocFrames, time : Times, pose : {0, PoseLandmarks - 3, PoseLandmarks},
     visible : BOOLEAN, x : {0}]

SeqsUpTo(S, n) == UNION {[1..k -> S] : k \in 0..n}

Documents ==
    [fps : {0, DocFps}, totalFrames : 0..MaxDocFrames,
     maxIndex : {PoseLandmarks - 1, PoseLandmarks}, culled : {0},
     frames : SeqsUpTo(DocFrames, MaxDocFrames)]

Ok == [ok |-> TRUE, tag |-> "none", path |-> "none"]
Err(tag, path) == [ok |-> FALSE, tag |-> tag, path |-> path]

\* time of the frame before frame i (the first frame has none)
NonMonotonic(frames) ==
    \E i \in 1..Len(frames) :
        \/ frames[i].frame # i - 1
        \/ i > 1 /\ frames[i].time < frames[i - 1].time

\* validate with the landmark lengths checked before the frame sequence
validate_LengthsFirst(raw) ==
    IF raw.fps <= 0 \/ raw.totalFrames <= 0
    THEN Err("OutOfRange", "metadata")
    ELSE IF raw.totalFrames # Len(raw.frames)
    THEN Err("ShapeMismatch", "metadata.totalFrames")
    ELSE IF raw.maxIndex > PoseLandmarks - 1
    THEN Err("OutOfRange", "skeleton.poseConnections")
    ELSE IF \E i \in 1..Len(raw.frames) : raw.frames[i].pose \notin {0, PoseLandmarks}
    THEN Err("ShapeMismatch", "frames.landmarks.pose")
    ELSE IF NonMonotonic(raw.frames)
    THEN Err("NonMonotonicSequence", "frames")
    ELSE IF \E i \in 1..Len(raw.frames) : ~raw.frames[i].visible
    THEN Err("OutOfRange", "frames.landmarks.worldPose")
    ELSE Ok

\* validate(raw): the checks in the order of the design, the first violated
\* one decides
validate(raw) ==
    IF raw.fps <= 0 \/ raw.totalFrames <= 0
    THEN Err("OutOfRange", "metadata")
    ELSE IF raw.totalFrames # Len(raw.frames)
    THEN Err("ShapeMismatch", "metadata.totalFrames")
    ELSE IF raw.maxIndex > PoseLandmarks - 1
    THEN Err("OutOfRange", "skeleton.poseConnections")
    ELSE IF NonMonotonic(raw.frames)
    THEN Err("NonMonotonicSequence", "frames")
    ELSE IF \E i \in 1..Len(raw.frames) : raw.frames[i].pose \notin {0, PoseLandmarks}
    THEN Err("ShapeMismatch", "frames.landmarks.pose")
    ELSE IF \E i \in 1..Len(raw.frames) : ~raw.frames[i].visible
    THEN Err("OutOfRange", "frames.landmarks.worldPose")
    ELSE Ok

\* a document arrives and validate is applied to it
ValidateInit ==
    /\ MotionInit
    /\ ViewInit
    /\ AppInit
    /\ version = "ipc"
    /\ electronAPI
    /\ document \in Documents
    /\ verdict = NoVerdict
    /\ optimized = NoDocument
    /\ SceneInit

RunValidate ==
    /\ verdict = NoVerdict
    /\ verdict' = validate(document)
    /\ UNCHANGED << sessionVars, mainVars, sceneVars, document, optimized, motionVars, engineVars, mounted, mounts, videoPath,
                    isProcessing, processingProgress, videoFile, videoId,
                    processingResults, error, intervals, calls, procs, jobs, seen,
                    netFails, uploads, version, electronAPI >>

ValidateSpec == ValidateInit /\ [][RunValidate]_vars

\* the six checks of the design, in their order, each as a property of the
\* document
Violates(check, raw) ==
    CASE check = 1 -> raw.fps <= 0 \/ raw.totalFrames <= 0
      [] check = 2 -> raw.totalFrames # Len(raw.frames)
      [] check = 3 -> raw.maxIndex > PoseLandmarks - 1
      [] check = 4 -> \E i \in 1..Len(raw.frames) :
                          \/ raw.frames[i].frame # i - 1
                          \/ i > 1 /\ raw.frames[i].time < raw.frames[i - 1].time
      [] check = 5 -> \E i \in 1..Len(raw.frames) :
                          raw.frames[i].pose \notin {0, PoseLandmarks}
      [] check = 6 -> \E i \in 1..Len(raw.frames) : ~raw.frames[i].visible

PathOf(check) ==
    CASE check = 1 -> "metadata"
      [] check = 2 -> "metadata.totalFrames"
      [] check = 3 -> "skeleton.poseConnections"
      [] check = 4 -> "frames"
      [] check = 5 -> "frames.landmarks.pose"
      [] check = 6 -> "frames.landmarks.worldPose"

Violated(raw) == {check \in 1..6 : Violates(check, raw)}

MaxOptFrames == 3
PrecisionUnit == 10
Epsilon == 10
MaxGap == 3
OptTimes == 0..(MaxGap + 1)
OptCoordinates == {0, 4, 12, 26}

\* the valid documents handed to optimize: indices 0..n-1, times in order
SourceDocuments(n) ==
    {d \in
       {[fps |-> DocFps, totalFrames |-> n, maxIndex |-> PoseLandmarks - 1, culled |-> 0,
         frames |-> [i \in 1..n |-> [frame |-> i - 1, time |-> t[i], pose |-> PoseLandmarks,
                                      visible |-> TRUE, x |-> c[i]]]] :
           t \in [1..n -> OptTimes], c \in [1..n -> OptCoordinates]} :
       validate(d) = Ok}

\* a coordinate rounded to precisionDigits = 4 decimal places
RoundCoordinate(x) == ((x + (PrecisionUnit \div 2)) \div PrecisionUnit) * PrecisionUnit

Distance(a, b) == IF a < b THEN b - a ELSE a - b

\* the frame may be removed: its landmarks are within epsilon of the last
\* retained frame and its time is at most 1.5 / fps past that frame's time
Cullable(f, kept) ==
    /\ Distance(f.x, kept.x) <= Epsilon
    /\ f.time - kept.time <= MaxGap

\* the retained frames, rounded; `reindex` says whether the frame fields are
\* rewritten to be contiguous from 0
RECURSIVE Retain(_, _, _)
Retain(frames, kept, reindex) ==
    IF frames = << >> THEN kept
    ELSE LET f == Head(frames)
             r == [f EXCEPT !.x = RoundCoordinate(f.x),
                            !.frame = IF reindex THEN Len(kept) ELSE f.frame]
         IN IF kept # << >> /\ Cullable(r, kept[Len(kept)])
            THEN Retain(Tail(frames), kept, reindex)
            ELSE Retain(Tail(frames), Append(kept, r), reindex)

Optimized(data, kept) ==
    [data EXCEPT !.frames = kept,
                 !.totalFrames = Len(kept),
                 !.culled = Len(data.frames) - Len(kept)]

\* optimize that leaves the frame fields of the retained frames as they were
optimize_NoReindex(data) == Optimized(data, Retain(data.frames, << >>, FALSE))

\* optimize(data, precisionDigits = 4)
optimize(data) == Optimized(data, Retain(data.frames, << >>, TRUE))

OptimizeInit ==
    /\ MotionInit
    /\ ViewInit
    /\ AppInit
    /\ version = "ipc"
    /\ electronAPI
    /\ \E n \in 1..MaxOptFrames : document \in SourceDocuments(n)
    /\ verdict = NoVerdict
    /\ optimized = NoDocument
    /\ SceneInit

RunOptimize ==
    /\ optimized = NoDocument
    /\ optimized' = optimize(document)
    /\ UNCHANGED << sessionVars, mainVars, sceneVars, document, verdict, motionVars, engineVars, mounted, mounts, videoPath,
                    isProcessing, processingProgress, videoFile, videoId,
                    processingResults, error, intervals, calls, procs, jobs, seen,
                    netFails, uploads, version, electronAPI >>

OptimizeSpec == OptimizeInit /\ [][RunOptimize]_vars

\* C20: optimize leaves its input as it was and returns data that satisfies
\* the invariants again: totalFrames equals the number of frames and is at
\* most the source's, the frames carry the indices 0..n-1 in order and their
\* times do not decrease.
C20_OptimizeKeepsInvariants ==
    [][optimized' # optimized =>
          /\ document' = document
          /\ optimized'.totalFrames = Len(optimized'.frames)
          /\ optimized'.totalFrames <= document.totalFrames
          /\ \A i \in 1..Len(optimized'.frames) :
                /\ optimized'.frames[i].frame = i - 1
                /\ i > 1 => optimized'.frames[i].time >= optimized'.frames[i - 1].time
          /\ validate(optimized') = Ok]_vars

\* a frame in the middle was culled and the frames after it were re-indexed
C20_CulledAndReindexed ==
    /\ optimized.culled > 0
    /\ Len(optimized.frames) > 1
    /\ optimized.frames[2].time > document.frames[2].time

\* ---------------------------------------------------------------- retarget
\* Times are in half source frame periods (as for optimize), so a second has
\* 2 * fps of them and the sample period of a target rate is a whole number
\* for the rates below. Coordinates are multiples of 12, so that every
\* interpolated value between frames at most OptTimes apart is exact.
MaxSrcFrames == 3
HandLandmarks == 21
TargetRates == {DocFps \div 2, DocFps, 2 * DocFps}
PoseChannels == {[pose |-> 0, x |-> 0], [pose |-> PoseLandmarks, x |-> 0],
                 [pose |-> PoseLandmarks, x |-> 12]}
HandChannels == {[hand |-> 0, hx |-> 0], [hand |-> HandLandmarks, hx |-> 12]}

\* frame times in order
OrderedTimes(n) == {t \in [1..n -> OptTimes] : \A i \in 2..n : t[i] >= t[i - 1]}

\* a valid document handed to retarget: n frames with the times t and the
\* channels p and h; a channel of count 0 is absent
RetargetSource(n, t, p, h) ==
    [fps |-> DocFps, totalFrames |-> n, maxIndex |-> PoseLandmarks - 1, culled |-> 0,
     frames |-> [i \in 1..n |-> [frame |-> i - 1, time |-> t[i],
                                  pose |-> p[i].pose, visible |-> TRUE, x |-> p[i].x,
                                  hand |-> h[i].hand, hx |-> h[i].hx]]]

\* the sample period of a target rate
Period(targetFps) == (2 * DocFps) \div targetFps

\* the bracketing source frames of time t: the last one at or before t and
\* the first one at or after t; a sample before the first frame clamps to it
LastAtOrBefore(frames, t) ==
    IF frames[1].time > t THEN 1
    ELSE CHOOSE i \in 1..Len(frames) :
            /\ frames[i].time <= t
            /\ \A j \in 1..Len(frames) : frames[j].time <= t => j <= i

\* the frame after the last one at or before t, as b of the bracket
FirstAfter(frames, t) ==
    IF frames[Len(frames)].time <= t THEN Len(frames)
    ELSE CHOOSE i \in 1..Len(frames) :
            /\ frames[i].time > t
            /\ \A j \in 1..Len(frames) : frames[j].time > t => j >= i

FirstAtOrAfter(frames, t) ==
    IF frames[Len(frames)].time < t THEN Len(frames)
    ELSE CHOOSE i \in 1..Len(frames) :
            /\ frames[i].time >= t
            /\ \A j \in 1..Len(frames) : frames[j].time >= t => j >= i

\* v = a * (1 - w) + b * w with w = (t - ta) / (tb - ta), w = 0 if ta = tb
Lerp(a, b, ta, tb, t) ==
    IF ta >= tb \/ t <= ta THEN a
    ELSE IF t >= tb THEN b
    ELSE (a * (tb - t) + b * (t - ta)) \div (tb - ta)

\* a channel is interpolated when either side has it
Present_Either(a, b) == a > 0 \/ b > 0

\* a channel is interpolated only when both bracketing frames have it
Present(a, b) == a > 0 /\ b > 0

\* the output frame k, sampled at time t
Sample(frames, k, t) ==
    LET a == frames[LastAtOrBefore(frames, t)]
        b == frames[FirstAtOrAfter(frames, t)]
    IN [frame |-> k, time |-> t, visible |-> TRUE,
        pose |-> IF Present(a.pose, b.pose) THEN PoseLandmarks ELSE 0,
        x |-> IF Present(a.pose, b.pose) THEN Lerp(a.x, b.x, a.time, b.time, t) ELSE 0,
        hand |-> IF Present(a.hand, b.hand) THEN HandLandmarks ELSE 0,
        hx |-> IF Present(a.hand, b.hand) THEN Lerp(a.hx, b.hx, a.time, b.time, t) ELSE 0]

\* the samples cover [0, time of the last frame]
SampleCount(frames, period) == frames[Len(frames)].time \div period + 1

\* retarget(data, targetFps)
retarget(data, targetFps) ==
    LET period == Period(targetFps)
        n == SampleCount(data.frames, period)
    IN [data EXCEPT !.fps = targetFps,
                    !.totalFrames = n,
                    !.frames = [k \in 1..n |-> Sample(data.frames, k - 1, (k - 1) * period)]]

RetargetInit ==
    /\ MotionInit
    /\ ViewInit
    /\ AppInit
    /\ version = "ipc"
    /\ electronAPI
    /\ \E n \in 1..MaxSrcFrames :
          \E t \in OrderedTimes(n), p \in [1..n -> PoseChannels], h \in [1..n -> HandChannels] :
             document = RetargetSource(n, t, p, h)
    /\ verdict = NoVerdict
    /\ optimized = NoDocument
    /\ SceneInit

RunRetarget(targetFps) ==
    /\ optimized = NoDocument
    /\ optimized' = retarget(document, targetFps)
    /\ UNCHANGED << sessionVars, mainVars, sceneVars, document, verdict, motionVars, engineVars, mounted, mounts, videoPath,
                    isProcessing, processingProgress, videoFile, videoId,
                    processingResults, error, intervals, calls, procs, jobs, seen,
                    netFails, uploads, version, electronAPI >>

RetargetNext == \E targetFps \in TargetRates : RunRetarget(targetFps)

RetargetSpec == RetargetInit /\ [][RetargetNext]_vars

\* the channels and values of a frame
Channels(f) == << f.pose, f.x, f.hand, f.hx >>

\* C21: retarget at the source rate is the identity: the result has as many
\* frames as the source and each of its frames has the channels and values of
\* the source frame at that index.
C21_IdentityAtSourceRate ==
    (optimized # NoDocument /\ optimized.fps = document.fps) =>
        /\ optimized.totalFrames = document.totalFrames
        /\ Len(optimized.frames) = Len(document.frames)
        /\ \A i \in 1..Len(document.frames) :
              Channels(optimized.frames[i]) = Channels(document.frames[i])

\* frame i of the data has the time i / fps
UniformTimes(data) ==
    \A i \in 1..Len(data.frames) : data.frames[i].time = (i - 1) * Period(data.fps)

\* C21 (amended): for data whose frame i has the time i / fps, retarget at
\* the source rate is the identity, absent channels included.
C21_IdentityOnUniformTimes ==
    (optimized # NoDocument /\ optimized.fps = document.fps /\ UniformTimes(document)) =>
        /\ optimized.totalFrames = document.totalFrames
        /\ Len(optimized.frames) = Len(document.frames)
        /\ \A i \in 1..Len(document.frames) :
              Channels(optimized.frames[i]) = Channels(document.frames[i])

\* uniformly timed data with a channel present in one frame and absent in the
\* next has been retargeted at its own rate
C21_UniformWithAbsentChannel ==
    /\ optimized # NoDocument
    /\ optimized.fps = document.fps
    /\ UniformTimes(document)
    /\ Len(document.frames) > 1
    /\ document.frames[1].pose > 0
    /\ document.frames[2].pose = 0
    /\ document.frames[1].hand = 0
    /\ document.frames[2].hand > 0

\* output sample k lies strictly between two source frames of which only the
\* first has the pose channel
OneSided(k) ==
    LET t == optimized.frames[k].time
        a == document.frames[LastAtOrBefore(document.frames, t)]
        b == document.frames[FirstAtOrAfter(document.frames, t)]
    IN a.time < t /\ t < b.time /\ a.pose > 0 /\ b.pose = 0

\* C26: a channel of an output sample is present only if both bracketing
\* source frames have it; a channel that only one of them has is absent from
\* the sample and carries no value.
C26_PresentOnlyIfBoth ==
    optimized # NoDocument =>
        \A k \in 1..Len(optimized.frames) :
            LET t == optimized.frames[k].time
                a == document.frames[LastAtOrBefore(document.frames, t)]
                b == document.frames[FirstAtOrAfter(document.frames, t)]
                out == optimized.frames[k]
            IN /\ out.pose > 0 => (a.pose > 0 /\ b.pose > 0)
               /\ out.hand > 0 => (a.hand > 0 /\ b.hand > 0)
               /\ (a.pose = 0 \/ b.pose = 0) => (out.pose = 0 /\ out.x = 0)
               /\ (a.hand = 0 \/ b.hand = 0) => (out.hand = 0 /\ out.hx = 0)

\* a sample was interpolated between a frame with the pose and one without
C26_OneSidedSample ==
    /\ optimized # NoDocument
    /\ \E k \in 1..Len(optimized.frames) : OneSided(k)

\* ---------------------------------------------------------------- toScene
\* Landmark coordinates are in twentieths, so 0.5 is GridUnit \div 2; z is
\* taken from a few values around 0.
MaxApplications == 2
GridUnit == 20
Grid == {<< x, y, z >> : x \in 0..GridUnit, y \in 0..GridUnit, z \in (-2)..2}

\* the mirror applied to the landmark's x before the offset is taken
toScene_MirrorFirst(p, isMirrored) ==
    << ((IF isMirrored THEN -1 ELSE 1) * p[1] - GridUnit \div 2) * 2,
       -(p[2] - GridUnit \div 2) * 2,
       -p[3] * 2 >>

\* video to Three.js coordinates
toScene(p, isMirrored) ==
    << (p[1] - GridUnit \div 2) * 2 * (IF isMirrored THEN -1 ELSE 1),
       -(p[2] - GridUnit \div 2) * 2,
       -p[3] * 2 >>

ToSceneInit ==
    /\ MotionInit
    /\ ViewInit
    /\ AppInit
    /\ version = "ipc"
    /\ electronAPI
    /\ document = NoDocument
    /\ verdict = NoVerdict
    /\ optimized = NoDocument
    /\ landmark \in Grid
    /\ scene = [p |-> landmark, applied |-> << >>]

\* the coordinates are transformed once more
Transform(isMirrored) ==
    /\ Len(scene.applied) < MaxApplications
    /\ scene' = [p |-> toScene(scene.p, isMirrored),
                 applied |-> Append(scene.applied, isMirrored)]
    /\ UNCHANGED << sessionVars, mainVars, landmark, document, verdict, optimized, motionVars, engineVars, mounted,
                    mounts, videoPath, isProcessing, processingProgress, videoFile, videoId,
                    processingResults, error, intervals, calls, procs, jobs, seen,
                    netFails, uploads, version, electronAPI >>

ToSceneNext == \E isMirrored \in BOOLEAN : Transform(isMirrored)

ToSceneSpec == ToSceneInit /\ [][ToSceneNext]_vars

\* C22: toScene(toScene(p, true), false) restores the landmark p.
C22_MirrorTwiceRestores ==
    scene.applied = << TRUE, FALSE >> => scene.p = landmark

\* C22 (amended): the mirrored transform is the plain transform with the
\* scene x negated, so that negating the scene x compensates the mirror;
\* y and z do not depend on the mirror.
C22_MirrorNegatesX ==
    scene.applied = << TRUE >> =>
        LET plain == toScene(landmark, FALSE)
        IN scene.p = << -plain[1], plain[2], plain[3] >>

\* a landmark off the centre line has been transformed with the mirror on
C22_MirroredOffCentre ==
    /\ scene.applied = << TRUE >>
    /\ landmark[1] # GridUnit \div 2
    /\ scene.p[1] # 0

\* ------------------------------------------------------- VideoCapture, again
\* C23: the error shown to the user is one of the fixed messages; a raw
\* transport or exception message of the IPC layer or of the backend's reply
\* is never stored in it.
C23_NoRawMessage ==
    error \in {NULL, ErrSelectFirst, ErrElectronOnly, ErrWebPreview, ErrProcessingFailed,
               ErrCommunicate, ErrFetchResults, ErrUpload, ErrStart, ErrProcess}

\* C24: a new selection destroys the job of the video selected before: until
\* the new video has been uploaded the view holds no job id to process, poll
\* or fetch with, and processing the new selection starts with its upload.
C24_NewSelectionNewJob ==
    [][/\ uploads' = 0 => videoId' = NoId
       /\ (~isProcessing /\ isProcessing' /\ uploads = 0) => uploads' = 1]_vars

\* C25: the outcomes exclude each other: the view never holds an error
\* together with processing results.
C25_ErrorOrResults == ~(error # NULL /\ processingResults # NoResults)

\* ------------------------------------------------------ Electron main process
maxAttempts == 30

\* everything but the main process and the store's backendStatus
rendererVars == << version, electronAPI, mounted, mounts, videoPath, isProcessing,
                   processingProgress, videoFile, videoId, processingResults, error,
                   intervals, calls, procs, jobs, seen, netFails, uploads, motionVars,
                   engineVars, document, verdict, optimized, sceneVars, currentSession,
                   sessions, flowMetrics, wasReset >>

MainSpecInit ==
    /\ MotionInit
    /\ ViewInit
    /\ DocInit
    /\ SessionInit
    /\ \E mac \in BOOLEAN : MainInit(mac)

\* pythonProcess.kill(): the process is signalled; the variable is cleared
\* by the 'close' handler only
Kill ==
    /\ pythonProcess' = IF pythonProcess = NULL THEN NULL ELSE "killed"
    /\ killedByApp' = (killedByApp \/ pythonProcess = "running")

\* the user closes the window: mainWindow.on('closed') and then
\* app.on('window-all-closed'), which Electron emits with it; app.quit()
\* runs the 'before-quit' handler and ends the app
CloseWindow ==
    /\ appRunning
    /\ mainWindow = "open"
    /\ mainWindow' = NULL
    /\ Kill
    /\ appRunning' = isMac
    /\ UNCHANGED << isMac, waitPc, attempts, lastCheck, checks, readySent, dialogs, nullSend,
                    backendStatus, rendererVars >>

\* app.on('activate'), emitted on macOS when the dock icon is clicked
Activate ==
    /\ appRunning
    /\ isMac
    /\ mainWindow' = (IF mainWindow = NULL THEN "open" ELSE mainWindow)
    /\ UNCHANGED << pythonProcess, killedByApp, isMac, appRunning, waitPc, attempts,
                    lastCheck, checks, readySent, dialogs, nullSend, backendStatus,
                    rendererVars >>

\* the quit role of the menu: app.on('before-quit'), then Electron closes the
\* windows and the app ends
Quit ==
    /\ appRunning
    /\ Kill
    /\ mainWindow' = NULL
    /\ appRunning' = FALSE
    /\ UNCHANGED << isMac, waitPc, attempts, lastCheck, checks, readySent, dialogs, nullSend,
                    backendStatus, rendererVars >>

\* pythonProcess.stdout / stderr 'data': the status goes to the renderer,
\* whose listener stores it, if there is a window
BackendOutput(status) ==
    /\ appRunning
    /\ pythonProcess # NULL
    /\ backendStatus' = (IF mainWindow # NULL THEN status ELSE backendStatus)
    /\ UNCHANGED << mainVars, rendererVars >>

\* pythonProcess 'close': the backend has exited, killed or by itself
BackendClose ==
    /\ appRunning
    /\ pythonProcess # NULL
    /\ pythonProcess' = NULL
    /\ backendStatus' = (IF mainWindow # NULL THEN "stopped" ELSE backendStatus)
    /\ UNCHANGED << mainWindow, killedByApp, isMac, appRunning, waitPc, attempts, lastCheck,
                    checks, readySent, dialogs, nullSend, rendererVars >>

\* a click handler of the File menu: mainWindow.webContents.send(...); the
\* application menu stays in the menu bar of macOS when no window is open
MenuClick ==
    /\ appRunning
    /\ mainWindow # NULL \/ isMac
    /\ nullSend' = (nullSend \/ mainWindow = NULL)
    /\ UNCHANGED << mainWindow, pythonProcess, killedByApp, isMac, appRunning, waitPc,
                    attempts, lastCheck, checks, readySent, dialogs, backendStatus,
                    rendererVars >>

\* one turn of the loop of waitForBackend up to its timer: checkBackend
\* answers; only a live backend process answers with status 200
HealthCheck(ok) ==
    /\ appRunning
    /\ waitPc = "check"
    /\ ok => pythonProcess # NULL
    /\ checks' = checks + 1
    /\ lastCheck' = (IF ok THEN "ok" ELSE "failed")
    /\ waitPc' = (IF ok THEN "done" ELSE "sleep")
    /\ readySent' = (IF ok /\ mainWindow # NULL THEN readySent + 1 ELSE readySent)
    /\ nullSend' = (nullSend \/ (ok /\ mainWindow = NULL))
    /\ UNCHANGED << mainWindow, pythonProcess, killedByApp, isMac, appRunning, attempts,
                    dialogs, backendStatus, rendererVars >>

\* the loop tests attempts <= maxAttempts
WakeUp_OneMore ==
    /\ appRunning
    /\ waitPc = "sleep"
    /\ attempts' = attempts + 1
    /\ waitPc' = (IF attempts' <= maxAttempts THEN "check" ELSE "done")
    /\ dialogs' = (IF attempts' <= maxAttempts THEN dialogs ELSE dialogs + 1)
    /\ UNCHANGED << mainWindow, pythonProcess, killedByApp, isMac, appRunning, lastCheck,
                    checks, readySent, nullSend, backendStatus, rendererVars >>

\* the timer of the loop fires: attempts++, the loop test, and the error
\* dialog when the loop is left
WakeUp ==
    /\ appRunning
    /\ waitPc = "sleep"
    /\ attempts' = attempts + 1
    /\ waitPc' = (IF attempts' < maxAttempts THEN "check" ELSE "done")
    /\ dialogs' = (IF attempts' < maxAttempts THEN dialogs ELSE dialogs + 1)
    /\ UNCHANGED << mainWindow, pythonProcess, killedByApp, isMac, appRunning, lastCheck,
                    checks, readySent, nullSend, backendStatus, rendererVars >>

MainNext ==
    \/ CloseWindow
    \/ Activate
    \/ Quit
    \/ \E status \in {"running", "error"} : BackendOutput(status)
    \/ BackendClose
    \/ MenuClick
    \/ \E ok \in BOOLEAN : HealthCheck(ok)
    \/ WakeUp

MainSpec == MainSpecInit /\ [][MainNext]_vars

\* C27: the main process never evaluates mainWindow.webContents.send while
\* mainWindow is null.
C27_NoSendToClosedWindow == ~nullSend

\* C28: while the app runs with an open main window, the backend it spawned
\* is running, unless the backend exited by itself.
C28_WindowHasBackend ==
    (appRunning /\ mainWindow # NULL) => (pythonProcess = "running" \/ ~killedByApp)

\* C29: waitForBackend performs at most 30 health checks, sends
\* 'backend-ready' at most once and only after a check that answered 200, and
\* shows the error dialog exactly once, after the 30th failed check, when no
\* check answered 200.
C29_WaitTerminates ==
    /\ checks <= maxAttempts
    /\ readySent <= 1
    /\ readySent = 1 => (lastCheck = "ok" /\ waitPc = "done")
    /\ dialogs <= 1
    /\ dialogs = 1 => (checks = maxAttempts /\ lastCheck = "failed" /\ readySent = 0)
    /\ (waitPc = "done" /\ lastCheck = "failed") => dialogs = 1
    /\ waitPc = "check" => checks = attempts
    /\ waitPc = "sleep" => checks = attempts + 1

\* thirty checks have failed and the dialog is up
C29_GaveUp == waitPc = "done" /\ dialogs = 1 /\ checks = maxAttempts


\* ------------------------------------------------------------------- store
\* The operations of the store, called in any order with a few values each;
\* no view is mounted.
outsideStore == << version, electronAPI, mounted, mounts, localVars, intervals, calls, procs,
                   jobs, histVars, engineVars, document, verdict, optimized, sceneVars,
                   mainVars >>

StoreNext ==
    \/ \E path \in Videos :
          /\ videoPath' = path
          /\ UNCHANGED << isProcessing, processingProgress, motionVars, sessionVars,
                          outsideStore >>
    \/ \E processing \in BOOLEAN :
          /\ isProcessing' = processing
          /\ UNCHANGED << videoPath, processingProgress, motionVars, sessionVars,
                          outsideStore >>
    \/ \E progress \in {ProgressOf("processing"), ProgressOf("completed")} :
          /\ processingProgress' = progress
          /\ UNCHANGED << videoPath, isProcessing, motionVars, sessionVars, outsideStore >>
    \/ \E data \in {0, MaxFrames} :
          /\ setMotionData(data)
          /\ UNCHANGED << storeVars, currentFrame, playbackSpeed, sessionVars, outsideStore >>
    \/ \E frame \in {0, 1} :
          /\ setCurrentFrame(frame)
          /\ UNCHANGED << storeVars, motionData, playbackSpeed, sessionVars, outsideStore >>
    \/ \E speed \in {1, 4} :
          /\ updateSettings(speed)
          /\ UNCHANGED << storeVars, motionData, currentFrame, sessionVars, outsideStore >>
    \/ \E metrics \in {[coherence |-> 1], [energy |-> 1, focus |-> 1]} :
          /\ flowMetrics' = [k \in DOMAIN flowMetrics |->
                               IF k \in DOMAIN metrics THEN metrics[k] ELSE flowMetrics[k]]
          /\ UNCHANGED << storeVars, motionVars, backendStatus, currentSession, sessions,
                          wasReset, outsideStore >>
    \/ \E status \in {"running", "stopped"} :
          /\ backendStatus' = status
          /\ UNCHANGED << storeVars, motionVars, currentSession, sessions, flowMetrics,
                          wasReset, outsideStore >>
    \/ \E now \in 1..MaxMoments :
          /\ createSession(now)
          /\ UNCHANGED << storeVars, motionVars, backendStatus, sessions, flowMetrics,
                          wasReset, outsideStore >>
    \/ \E now \in 1..MaxMoments : ResetApp(now)

StoreInit == Init /\ version = "ipc" /\ electronAPI

StoreSpec == StoreInit /\ [][StoreNext]_vars

\* C30: resetApp puts videoPath, isProcessing, processingProgress,
\* motionData, currentFrame and flowMetrics back to their initial values and
\* makes a new session the current one; it leaves the settings, backendStatus
\* and sessions as they are.
C30_ResetFrame ==
    [][\A now \in 1..MaxMoments :
          ResetApp(now) =>
             /\ videoPath' = NULL
             /\ ~isProcessing'
             /\ processingProgress' = 0
             /\ motionData' = 0
             /\ currentFrame' = 0
             /\ flowMetrics' = NoMetrics
             /\ currentSession' = [id |-> now]
             /\ UNCHANGED << playbackSpeed, backendStatus, sessions >>]_vars

\* resetApp has been applied to a store whose settings and backend status
\* had been changed; the reset fields have their initial values
C30_ResetKeepsSettings ==
    /\ wasReset
    /\ playbackSpeed = 4
    /\ backendStatus = "running"
    /\ videoPath = NULL /\ ~isProcessing /\ processingProgress = 0
    /\ motionData = 0 /\ currentFrame = 0 /\ flowMetrics = NoMetrics
    /\ currentSession # [id |-> 0]
====
